---------------------------- MODULE Spec2Model ----------------------------
(***************************************************************************)
(* Model of the IAK reporting tool.                                        *)
(*                                                                         *)
(*  SpecMerge : the PDF insertion engine of combine_pi_with_appendices.py  *)
(*              (find_last_page_with_text, find_insertion_points,          *)
(*              build_merged_pdf) applied to bounded documents.            *)
(*  Spec      : the batch drivers (main of combine_pi_with_appendices,     *)
(*              generate_aandachtspunten_beheerder, generate_pi_rapportage)*)
(*              with process_object / combine_pdfs of the combine script.  *)
(***************************************************************************)
EXTENDS Integers, Sequences, FiniteSets, TLC

(***************************************************************************)
(* Bounds of the model.                                                    *)
(***************************************************************************)
MaxPrimaryPages == 3
MaxAppendixPages == 2
NumObjects == 2
MaxRuns == 2
MaxVoortgangRows == 2

VARIABLES
    \* ---- PDF insertion engine --------------------------------------
    mpc,                \* position inside combine_pdfs' merge
    pi_pages,           \* the PI report: a sequence of page texts
    bijlage,            \* appendix name -> page count, 0 = path is None
    read_error,         \* appendix name -> the anchor search for it raised
    insertion_points,   \* result of find_insertion_points
    insertions_with_pages,      \* inline insertions still to be merged
    insertions_without_pages,   \* end-appends still to be appended
    writer,             \* the PdfWriter: a sequence of pages
    \* ---- batch drivers ----------------------------------------------
    driver,             \* which script's main is running
    pc,                 \* "loop" | "summary" | "crashed" | "idle"
    run,                \* how many times main has been started
    idx,                \* position of the loop in the list of objects
    files,              \* object -> the PDF files in its directory
    voortgang_rows,     \* object -> number of progress-sheet rows for it
    writes,             \* object -> times output_path was opened for writing
    why,                \* object -> the way its iteration ended in this run
    merged_with,        \* object -> appendices handed to the last merge
    successful_objects,
    skipped_objects,
    failed_objects,
    missing_bijlage_6_objects,
    \* ---- row parsing and photo lookup of the Word table builder ------
    fn,                 \* the function applied: "finding" |
                        \*   "list_of_fotonummers" | "find_foto_path"
    cell_content,       \* the finding field of a row: a string
    fotonummers,        \* the photo cell of a row: a string
    fotonummer,         \* a photo token: a string
    imgs,               \* the candidate pictures: a sequence of files
    returned,           \* what the function returned or raised
    \* ---- one iteration of the Word table builder's main loop ----------
    wpc,                \* position inside the try block of main
    ora_filtered,       \* the filtered ORA rows: a sequence of rows
    path_imgs,          \* the pictures listed for the object
    word_document,      \* the docx document: body elements and table cells
    row_i,              \* rows populated so far (the loop index i)
    word_error,         \* the exception that reached main's except clause
    docx_written,       \* the .docx was saved in this iteration
    pdf_written,        \* the .pdf was converted in this iteration
    failed_object,      \* the object code was appended to failed_objects
    \* ---- conversions through the Excel automation bridge --------------
    xpc,                \* position inside the running conversion
    operation,          \* "export_to_pdf" | "run_macro_on_workbook"
    sheet_name,         \* export_to_pdf was given a sheet name
    path_exists,        \* the Excel file of run_macro_on_workbook exists
    personal_open,      \* Excel starts with PERSONAL.XLSB already open
    excel,              \* the Excel application: "none" | "running" | "quit"
    excel_app,          \* run_macro_on_workbook's local: FALSE is None
    workbook,           \* the conversion holds an open workbook
    conversions,        \* conversions started so far
    left_running        \* Excel applications earlier conversions left open

merge_vars == <<mpc, pi_pages, bijlage, read_error, insertion_points,
                insertions_with_pages, insertions_without_pages, writer>>
batch_vars == <<driver, pc, run, idx, files, voortgang_rows, writes,
                why, merged_with, successful_objects, skipped_objects,
                failed_objects, missing_bijlage_6_objects>>
fields_vars == <<fn, cell_content, fotonummers, fotonummer, imgs, returned>>
word_vars == <<wpc, ora_filtered, path_imgs, word_document, row_i,
               word_error, docx_written, pdf_written, failed_object>>
excel_vars == <<xpc, operation, sheet_name, path_exists, personal_open,
                excel, excel_app, workbook, conversions, left_running>>
builder_vars == <<fields_vars, word_vars, excel_vars>>
vars == <<merge_vars, batch_vars, builder_vars>>

\* A string is a sequence of characters; "" is the empty sequence.
Pending == [kind |-> "pending"]

FieldsIdle ==
    /\ fn = "none"
    /\ cell_content = <<>>
    /\ fotonummers = <<>>
    /\ fotonummer = <<>>
    /\ imgs = <<>>
    /\ returned = Pending

NoDocument == [body |-> <<>>, cells |-> <<>>]

WordIdle ==
    /\ wpc = "idle"
    /\ ora_filtered = <<>>
    /\ path_imgs = <<>>
    /\ word_document = NoDocument
    /\ row_i = 0
    /\ word_error = Pending
    /\ docx_written = FALSE
    /\ pdf_written = FALSE
    /\ failed_object = FALSE

ExcelIdle ==
    /\ xpc = "idle"
    /\ operation = "none"
    /\ sheet_name = FALSE
    /\ path_exists = FALSE
    /\ personal_open = FALSE
    /\ excel = "none"
    /\ excel_app = FALSE
    /\ workbook = FALSE
    /\ conversions = 0
    /\ left_running = 0

BuilderIdle ==
    /\ FieldsIdle
    /\ WordIdle
    /\ ExcelIdle

(***************************************************************************)
(* Texts.  A text is a sequence of words; lower() maps every word to its   *)
(* lower-case form and `in' is the contiguous-subsequence test.            *)
(***************************************************************************)
LowerWord(w) ==
    CASE w = "Bijlage" -> "bijlage"
      [] w = "BIJLAGE" -> "bijlage"
      [] w = "Zie" -> "zie"
      [] w = "En" -> "en"
      [] OTHER -> w

lower(text) == [i \in DOMAIN text |-> LowerWord(text[i])]

Contains(needle, hay) ==
    \E i \in 0..(Len(hay) - Len(needle)) :
        SubSeq(hay, i + 1, i + Len(needle)) = needle

PI_RAPPORT_PATTERN == <<"pi", "rapport">>
BIJLAGE_3_PATTERN == <<"bijlage", "3">>
BIJLAGE_6_PATTERN == <<"bijlage", "6">>
BIJLAGE_9_PATTERN == <<"bijlage", "9">>
EXCLUDE_COMPLEET == <<"compleet">>

\* The appendices in the order combine_pdfs declares them.
AppendixOrder == <<"Bijlage 3", "Bijlage 6", "Bijlage 9">>
AppendixNames == {"Bijlage 3", "Bijlage 6", "Bijlage 9"}

SearchPattern(name) ==
    CASE name = "Bijlage 3" -> BIJLAGE_3_PATTERN
      [] name = "Bijlage 6" -> BIJLAGE_6_PATTERN
      [] name = "Bijlage 9" -> BIJLAGE_9_PATTERN

\* The page texts the primary document is built from.
PageTexts ==
    { <<>>,
      <<"Zie", "Bijlage", "3">>,
      <<"BIJLAGE", "6">>,
      <<"bijlage", "9">>,
      <<"Bijlage", "3", "en", "Bijlage", "9">> }

PrimaryDocuments ==
    UNION { [1..n -> PageTexts] : n \in 0..MaxPrimaryPages }

None == -1

(***************************************************************************)
(* find_last_page_with_text                                                *)
(***************************************************************************)
\* Variant of the scan that stops updating at the first match.
RECURSIVE ScanPages_first(_, _, _, _)
ScanPages_first(pages, search_text, page_num, last_page) ==
    IF page_num >= Len(pages)
    THEN last_page
    ELSE ScanPages_first(pages, search_text, page_num + 1,
                   IF /\ last_page = None
                      /\ Contains(lower(search_text), lower(pages[page_num + 1]))
                   THEN page_num
                   ELSE last_page)

RECURSIVE ScanPages(_, _, _, _)
ScanPages(pages, search_text, page_num, last_page) ==
    IF page_num >= Len(pages)
    THEN last_page
    ELSE ScanPages(pages, search_text, page_num + 1,
                   IF Contains(lower(search_text), lower(pages[page_num + 1]))
                   THEN page_num
                   ELSE last_page)

\* Variant of the search that keeps what the pages hold although reading
\* raised.
find_last_page_with_text_ignoring_raise(pages, search_text, raises) ==
    ScanPages(pages, search_text, 0, None)

\* raises: open(), PdfReader or extract_text on one of the pages raises.
\* The exception is caught, whatever was found before it is dropped and
\* None is returned.
find_last_page_with_text(pages, search_text, raises) ==
    IF raises
    THEN None
    ELSE ScanPages(pages, search_text, 0, None)

(***************************************************************************)
(* find_insertion_points                                                   *)
(***************************************************************************)
HasPath(paths, name) == paths[name] > 0

\* The appendices the loop of find_insertion_points does not pass over.
SuppliedAppendices(paths) ==
    LET Supplied(name) == HasPath(paths, name)
    IN  SelectSeq(AppendixOrder, Supplied)

find_insertion_points(pages, paths, raises) ==
    LET supplied == SuppliedAppendices(paths)
    IN  [i \in DOMAIN supplied |->
            [page |-> find_last_page_with_text(pages,
                                               SearchPattern(supplied[i]),
                                               raises[supplied[i]]),
             name |-> supplied[i]]]

(***************************************************************************)
(* PdfWriter: pages are <<document, page number>> pairs.                   *)
(***************************************************************************)
PagesOf(doc, n) == [i \in 1..n |-> <<doc, i>>]

Min(a, b) == IF a < b THEN a ELSE b

\* PdfWriter.insert_page: list.insert, an index past the end appends.
insert_page(w, index, page) ==
    LET i == Min(index, Len(w))
    IN  SubSeq(w, 1, i) \o <<page>> \o SubSeq(w, i + 1, Len(w))

\* Variant of merge that inserts every page at the same position.
RECURSIVE merge_fixed_position(_, _, _)
merge_fixed_position(w, position, pages) ==
    IF pages = <<>>
    THEN w
    ELSE merge_fixed_position(insert_page(w, position, Head(pages)),
                              position, Tail(pages))

\* PdfWriter.merge(position, fileobj): the pages one by one, position
\* moving on by one after each.
RECURSIVE merge(_, _, _)
merge(w, position, pages) ==
    IF pages = <<>>
    THEN w
    ELSE merge(insert_page(w, position, Head(pages)), position + 1, Tail(pages))

\* Variant of append that puts the pages in front.
append_front(w, pages) == pages \o w

\* PdfWriter.append(fileobj)
append(w, pages) == w \o pages

(***************************************************************************)
(* build_merged_pdf                                                        *)
(***************************************************************************)
WithPage(entry) == entry.page # None

\* Variant of the partition that loses the entries without a page.
WithoutPage_dropped(entry) == FALSE

WithoutPage(entry) == entry.page = None

\* Variant of the sort that leaves the order as declared.
SortByPageDescending_unsorted(s) == s

\* Variant of the sort that turns entries of the same page around.
RECURSIVE SortByPageDescending_ties_reversed(_)
SortByPageDescending_ties_reversed(s) ==
    IF s = <<>>
    THEN <<>>
    ELSE LET front == SortByPageDescending_ties_reversed(SubSeq(s, 1, Len(s) - 1))
             x == s[Len(s)]
             k == Cardinality({i \in DOMAIN front : front[i].page > x.page})
         IN  SubSeq(front, 1, k) \o <<x>> \o SubSeq(front, k + 1, Len(front))

\* list.sort(key=page, reverse=True): stable, so entries of the same page
\* keep the order they had.
RECURSIVE SortByPageDescending(_)
SortByPageDescending(s) ==
    IF s = <<>>
    THEN <<>>
    ELSE LET front == SortByPageDescending(SubSeq(s, 1, Len(s) - 1))
             x == s[Len(s)]
             k == Cardinality({i \in DOMAIN front : front[i].page >= x.page})
         IN  SubSeq(front, 1, k) \o <<x>> \o SubSeq(front, k + 1, Len(front))

(***************************************************************************)
(* SpecMerge: the engine applied to every bounded primary document and     *)
(* set of appendices.                                                      *)
(***************************************************************************)
BatchIdle ==
    /\ driver = "none"
    /\ pc = "idle"
    /\ run = 0
    /\ idx = 0
    /\ files = <<>>
    /\ voortgang_rows = <<>>
    /\ writes = <<>>
    /\ why = <<>>
    /\ merged_with = <<>>
    /\ successful_objects = <<>>
    /\ skipped_objects = <<>>
    /\ failed_objects = <<>>
    /\ missing_bijlage_6_objects = <<>>

InitMerge ==
    /\ mpc = "find"
    /\ pi_pages \in PrimaryDocuments
    /\ bijlage \in [AppendixNames -> 0..MaxAppendixPages]
    /\ read_error = [a \in AppendixNames |-> FALSE]
    /\ insertion_points = <<>>
    /\ insertions_with_pages = <<>>
    /\ insertions_without_pages = <<>>
    /\ writer = <<>>
    /\ BatchIdle
    /\ BuilderIdle

\* combine_pdfs, line 223: the anchor search for every supplied appendix.
FindInsertionPoints ==
    /\ mpc = "find"
    /\ \E raises \in [AppendixNames -> BOOLEAN] :
        /\ \A a \in AppendixNames : ~HasPath(bijlage, a) => ~raises[a]
        /\ insertion_points' = find_insertion_points(pi_pages, bijlage, raises)
        /\ read_error' = raises
    /\ mpc' = "build"
    /\ UNCHANGED <<pi_pages, bijlage, insertions_with_pages,
                   insertions_without_pages, writer>>
    /\ UNCHANGED <<batch_vars, builder_vars>>

\* Variant of the position that uses the 0-based page index as it is.
InsertPosition_same_index(page) == page

\* line 179: insert_position = insert_page + 1
InsertPosition(page) == page + 1

\* build_merged_pdf, lines 163-174: the writer is seeded with the primary,
\* the insertion points are partitioned and the inline ones sorted.
BuildStart ==
    /\ mpc = "build"
    /\ writer' = append(<<>>, PagesOf("PI", Len(pi_pages)))
    /\ insertions_with_pages' =
           SortByPageDescending(SelectSeq(insertion_points, WithPage))
    /\ insertions_without_pages' = SelectSeq(insertion_points, WithoutPage)
    /\ mpc' = "merge"
    /\ UNCHANGED <<pi_pages, bijlage, read_error, insertion_points>>
    /\ UNCHANGED <<batch_vars, builder_vars>>

\* build_merged_pdf, lines 177-181: one turn of the insertion loop.
BuildMerge ==
    /\ mpc = "merge"
    /\ insertions_with_pages # <<>>
    /\ LET entry == Head(insertions_with_pages)
           insert_position == InsertPosition(entry.page)
       IN  writer' = merge(writer, insert_position,
                           PagesOf(entry.name, bijlage[entry.name]))
    /\ insertions_with_pages' = Tail(insertions_with_pages)
    /\ UNCHANGED <<mpc, pi_pages, bijlage, read_error, insertion_points,
                   insertions_without_pages>>
    /\ UNCHANGED <<batch_vars, builder_vars>>

\* build_merged_pdf, lines 184-186: one turn of the append loop.
BuildAppend ==
    /\ mpc = "merge"
    /\ insertions_with_pages = <<>>
    /\ insertions_without_pages # <<>>
    /\ LET entry == Head(insertions_without_pages)
       IN  writer' = append(writer, PagesOf(entry.name, bijlage[entry.name]))
    /\ insertions_without_pages' = Tail(insertions_without_pages)
    /\ UNCHANGED <<mpc, pi_pages, bijlage, read_error, insertion_points,
                   insertions_with_pages>>
    /\ UNCHANGED <<batch_vars, builder_vars>>

\* build_merged_pdf, line 188: return writer.
BuildReturn ==
    /\ mpc = "merge"
    /\ insertions_with_pages = <<>>
    /\ insertions_without_pages = <<>>
    /\ mpc' = "done"
    /\ UNCHANGED <<pi_pages, bijlage, read_error, insertion_points,
                   insertions_with_pages, insertions_without_pages, writer>>
    /\ UNCHANGED <<batch_vars, builder_vars>>

\* build_merged_pdf: PdfWriter.append or PdfWriter.merge raises on a file
\* it cannot read; the exception leaves build_merged_pdf.
BuildRaises ==
    /\ mpc \in {"build", "merge"}
    /\ mpc' = "raised"
    /\ UNCHANGED <<pi_pages, bijlage, read_error, insertion_points,
                   insertions_with_pages, insertions_without_pages, writer>>
    /\ UNCHANGED <<batch_vars, builder_vars>>

NextMerge ==
    \/ FindInsertionPoints
    \/ BuildStart
    \/ BuildMerge
    \/ BuildAppend
    \/ BuildReturn
    \/ BuildRaises

SpecMerge == InitMerge /\ [][NextMerge]_vars

(***************************************************************************)
(* The directory of an object.  A file is known by the pattern its name    *)
(* contains, by the number of " - compleet" suffixes its name carries and  *)
(* by its state; of two files of one pattern the one with more suffixes    *)
(* was written later.                                                      *)
(***************************************************************************)
Objects == 1..NumObjects

FilePatterns ==
    {PI_RAPPORT_PATTERN, BIJLAGE_3_PATTERN, BIJLAGE_6_PATTERN, BIJLAGE_9_PATTERN}

InputFile(pattern) == [kind |-> pattern, compleet |-> 0, state |-> "input"]
InputFiles == {InputFile(pattern) : pattern \in FilePatterns}

NoFile == [kind |-> <<>>, compleet |-> 0, state |-> "none"]
NoPattern == <<>>

\* pattern.lower() in filename.lower()
NameContains(file, pattern) ==
    IF pattern = EXCLUDE_COMPLEET
    THEN file.compleet > 0
    ELSE file.kind = pattern

\* Variant of the search that ignores exclude_pattern.
find_most_recent_file_no_exclude(directory, pattern, exclude_pattern) ==
    LET matching_files == {f \in directory : NameContains(f, pattern)}
    IN  IF matching_files = {}
        THEN NoFile
        ELSE CHOOSE f \in matching_files :
                 \A g \in matching_files : g.compleet <= f.compleet

\* lines 71-86
find_most_recent_file(directory, pattern, exclude_pattern) ==
    LET matching_files ==
            {f \in directory :
                /\ NameContains(f, pattern)
                /\ ~(exclude_pattern # NoPattern /\ NameContains(f, exclude_pattern))}
    IN  IF matching_files = {}
        THEN NoFile
        ELSE CHOOSE f \in matching_files :
                 \A g \in matching_files : g.compleet <= f.compleet

(***************************************************************************)
(* process_object                                                          *)
(***************************************************************************)
pi_report_path(o) ==
    find_most_recent_file(files[o], PI_RAPPORT_PATTERN, EXCLUDE_COMPLEET)
bijlage_3_path(o) == find_most_recent_file(files[o], BIJLAGE_3_PATTERN, NoPattern)
bijlage_6_path(o) == find_most_recent_file(files[o], BIJLAGE_6_PATTERN, NoPattern)
bijlage_9_path(o) == find_most_recent_file(files[o], BIJLAGE_9_PATTERN, NoPattern)

missing_bijlage_6(o) == bijlage_6_path(o) = NoFile

\* Variant of the check that forgets Bijlage 9.
critical_missing_only_3(o) == bijlage_3_path(o) = NoFile

\* line 286: not bijlage_3_path or not bijlage_9_path
critical_missing(o) == bijlage_3_path(o) = NoFile \/ bijlage_9_path(o) = NoFile

\* lines 291-294: the output file carries the PI report's name with one
\* more " - compleet".
OutputFile(o, state) ==
    [kind |-> pi_report_path(o).kind,
     compleet |-> pi_report_path(o).compleet + 1,
     state |-> state]

\* Variant of the check that never finds the output.
output_exists_never(o) == FALSE

\* line 298: os.path.exists(output_path)
output_exists(o) ==
    \E f \in files[o] :
        f.kind = OutputFile(o, "complete").kind /\
        f.compleet = OutputFile(o, "complete").compleet

\* The paths combine_pdfs is called with, as find_insertion_points sees them.
AppendixPaths(o) ==
    [name \in AppendixNames |->
        IF find_most_recent_file(files[o], SearchPattern(name), NoPattern) = NoFile
        THEN 0
        ELSE 1]

(***************************************************************************)
(* main of combine_pi_with_appendices                                      *)
(***************************************************************************)
\* Variant of the bookkeeping that also lists an object without Bijlage 6
\* as skipped.
main_record_missing_as_skipped(o, success, missing) ==
    /\ missing_bijlage_6_objects' =
           IF missing THEN Append(missing_bijlage_6_objects, o)
                      ELSE missing_bijlage_6_objects
    /\ successful_objects' =
           IF success THEN Append(successful_objects, o) ELSE successful_objects
    /\ skipped_objects' =
           IF missing \/ ~success THEN Append(skipped_objects, o)
                                  ELSE skipped_objects
    /\ UNCHANGED failed_objects

\* lines 337-343
main_record(o, success, missing) ==
    /\ missing_bijlage_6_objects' =
           IF missing THEN Append(missing_bijlage_6_objects, o)
                      ELSE missing_bijlage_6_objects
    /\ successful_objects' =
           IF success THEN Append(successful_objects, o) ELSE successful_objects
    /\ skipped_objects' =
           IF success THEN skipped_objects ELSE Append(skipped_objects, o)
    /\ UNCHANGED failed_objects

\* lines 345-347
main_except(o) ==
    /\ failed_objects' = Append(failed_objects, o)
    /\ UNCHANGED <<successful_objects, skipped_objects,
                   missing_bijlage_6_objects>>

InLoop(d) == driver = d /\ pc = "loop" /\ idx \in Objects

Iterated(reason) ==
    /\ why' = [why EXCEPT ![idx] = reason]
    /\ idx' = idx + 1
    /\ UNCHANGED <<driver, pc, run, voortgang_rows>>
    /\ UNCHANGED <<merge_vars, builder_vars>>

\* process_object, lines 268-271: no PI report, return (False, False).
ProcessObjectNoPiReport ==
    /\ InLoop("combine")
    /\ pi_report_path(idx) = NoFile
    /\ main_record(idx, FALSE, FALSE)
    /\ Iterated("no_pi_report")
    /\ UNCHANGED <<files, writes, merged_with>>

\* process_object, lines 273-288: Bijlage 3 or Bijlage 9 missing.
ProcessObjectCriticalMissing ==
    /\ InLoop("combine")
    /\ pi_report_path(idx) # NoFile
    /\ critical_missing(idx)
    /\ main_record(idx, FALSE, missing_bijlage_6(idx))
    /\ Iterated("critical_missing")
    /\ UNCHANGED <<files, writes, merged_with>>

\* process_object, lines 290-300: the combined PDF already exists.
ProcessObjectAlreadyExists ==
    /\ InLoop("combine")
    /\ pi_report_path(idx) # NoFile
    /\ ~critical_missing(idx)
    /\ output_exists(idx)
    /\ main_record(idx, TRUE, missing_bijlage_6(idx))
    /\ Iterated("exists")
    /\ UNCHANGED <<files, writes, merged_with>>

\* process_object, lines 302-310, with combine_pdfs, lines 214-238.
\*   "written"     : the plan is built and written.
\*   "build_error" : build_merged_pdf raises (a PDF cannot be read).
\*   "open_error"  : open(output_path, 'wb') raises, no file is created.
\*   "write_error" : writer.write raises after open created the file.
\* combine_pdfs catches every exception and returns False.
ProcessObjectCombine ==
    /\ InLoop("combine")
    /\ pi_report_path(idx) # NoFile
    /\ ~critical_missing(idx)
    /\ ~output_exists(idx)
    /\ merged_with' =
           [merged_with EXCEPT ![idx] = SuppliedAppendices(AppendixPaths(idx))]
    /\ \E result \in {"written", "build_error", "open_error", "write_error"} :
        /\ files' =
               [files EXCEPT ![idx] =
                   CASE result = "written" ->
                            files[idx] \cup {OutputFile(idx, "complete")}
                     [] result = "write_error" ->
                            files[idx] \cup {OutputFile(idx, "partial")}
                     [] OTHER -> files[idx]]
        /\ writes' =
               [writes EXCEPT ![idx] =
                   IF result \in {"written", "write_error"} THEN @ + 1 ELSE @]
        /\ main_record(idx, result = "written", missing_bijlage_6(idx))
        /\ Iterated(IF result = "written" THEN "merged" ELSE "merge_failed")

\* process_object raises (os.makedirs, os.path.getmtime): main's except.
ProcessObjectRaises ==
    /\ InLoop("combine")
    /\ main_except(idx)
    /\ Iterated("exception")
    /\ UNCHANGED <<files, writes, merged_with>>

(***************************************************************************)
(* main of generate_aandachtspunten_beheerder                              *)
(***************************************************************************)
\* get_voortgang_params raises unless exactly one row has the BH_code.
LookupRaises(o) == voortgang_rows[o] # 1

\* line 458: get_voortgang_params is called before the try statement, its
\* ValueError leaves main.
AandachtspuntenLookupRaises ==
    /\ InLoop("aandachtspunten")
    /\ LookupRaises(idx)
    /\ pc' = "crashed"
    /\ UNCHANGED <<driver, run, idx, files, voortgang_rows, writes, why,
                   merged_with, successful_objects, skipped_objects,
                   failed_objects, missing_bijlage_6_objects>>
    /\ UNCHANGED <<merge_vars, builder_vars>>

\* lines 461-486: the try statement, ending normally or in its except.
AandachtspuntenIteration ==
    /\ InLoop("aandachtspunten")
    /\ ~LookupRaises(idx)
    /\ \E raised \in BOOLEAN :
        IF raised
        THEN main_except(idx) /\ Iterated("exception")
        ELSE /\ Iterated("generated")
             /\ UNCHANGED <<successful_objects, skipped_objects, failed_objects,
                            missing_bijlage_6_objects>>
    /\ UNCHANGED <<files, writes, merged_with>>

(***************************************************************************)
(* main of generate_pi_rapportage                                          *)
(***************************************************************************)
\* lines 1015-1029: the lookup is inside the try statement.
PiRapportageIteration ==
    /\ InLoop("pi_rapportage")
    /\ \E raised \in BOOLEAN :
        IF raised \/ LookupRaises(idx)
        THEN main_except(idx) /\ Iterated("exception")
        ELSE /\ Iterated("generated")
             /\ UNCHANGED <<successful_objects, skipped_objects, failed_objects,
                            missing_bijlage_6_objects>>
    /\ UNCHANGED <<files, writes, merged_with>>

(***************************************************************************)
(* The end of the loop, and main started again on the same directories.    *)
(***************************************************************************)
MainSummary ==
    /\ pc = "loop"
    /\ idx > NumObjects
    /\ pc' = "summary"
    /\ UNCHANGED <<driver, run, idx, files, voortgang_rows, writes, why,
                   merged_with, successful_objects, skipped_objects,
                   failed_objects, missing_bijlage_6_objects>>
    /\ UNCHANGED <<merge_vars, builder_vars>>

MainAgain ==
    /\ pc = "summary"
    /\ run < MaxRuns
    /\ run' = run + 1
    /\ pc' = "loop"
    /\ idx' = 1
    /\ why' = [o \in Objects |-> "pending"]
    /\ merged_with' = [o \in Objects |-> <<>>]
    /\ successful_objects' = <<>>
    /\ skipped_objects' = <<>>
    /\ failed_objects' = <<>>
    /\ missing_bijlage_6_objects' = <<>>
    /\ UNCHANGED <<driver, files, voortgang_rows, writes>>
    /\ UNCHANGED <<merge_vars, builder_vars>>

MergeIdle ==
    /\ mpc = "idle"
    /\ pi_pages = <<>>
    /\ bijlage = [a \in AppendixNames |-> 0]
    /\ read_error = [a \in AppendixNames |-> FALSE]
    /\ insertion_points = <<>>
    /\ insertions_with_pages = <<>>
    /\ insertions_without_pages = <<>>
    /\ writer = <<>>

Init ==
    /\ MergeIdle
    /\ BuilderIdle
    /\ driver \in {"combine", "aandachtspunten", "pi_rapportage"}
    /\ pc = "loop"
    /\ run = 1
    /\ idx = 1
    /\ files \in [Objects -> SUBSET InputFiles]
    /\ voortgang_rows \in [Objects -> 0..MaxVoortgangRows]
    /\ driver = "combine" => voortgang_rows = [o \in Objects |-> 1]
    /\ driver # "combine" => files = [o \in Objects |-> {}]
    /\ writes = [o \in Objects |-> 0]
    /\ why = [o \in Objects |-> "pending"]
    /\ merged_with = [o \in Objects |-> <<>>]
    /\ successful_objects = <<>>
    /\ skipped_objects = <<>>
    /\ failed_objects = <<>>
    /\ missing_bijlage_6_objects = <<>>

Next ==
    \/ ProcessObjectNoPiReport
    \/ ProcessObjectCriticalMissing
    \/ ProcessObjectAlreadyExists
    \/ ProcessObjectCombine
    \/ ProcessObjectRaises
    \/ AandachtspuntenLookupRaises
    \/ AandachtspuntenIteration
    \/ PiRapportageIteration
    \/ MainSummary
    \/ MainAgain

Spec == Init /\ [][Next]_vars

(***************************************************************************)
(* Properties of the PDF insertion engine (checked under SpecMerge).       *)
(***************************************************************************)
IsPrimaryPage(page) == page[1] = "PI"

\* The entries of insertion_points, as a set.
Entries == {insertion_points[i] : i \in DOMAIN insertion_points}
Anchored == {e \in Entries : e.page # None}
Unanchored == {e \in Entries : e.page = None}

\* The places of the writer that hold pages of document doc.
PlacesOf(doc) == {i \in DOMAIN writer : writer[i][1] = doc}

\* The pages of document doc stand together and in order, from place first.
ContiguousFrom(doc, first) ==
    /\ bijlage[doc] >= 1
    /\ first + bijlage[doc] - 1 <= Len(writer)
    /\ \A k \in 1..bijlage[doc] : writer[first + k - 1] = <<doc, k>>
    /\ Cardinality(PlacesOf(doc)) = bijlage[doc]

\* C1: the merged document has as many pages as the primary and the
\* supplied appendices together, and holds every primary page exactly once,
\* the primary pages in their original order.
C1_PageCountAndPrimaryPreserved ==
    mpc = "done" =>
        /\ Len(writer) = Len(pi_pages) + bijlage["Bijlage 3"]
                         + bijlage["Bijlage 6"] + bijlage["Bijlage 9"]
        /\ \A n \in 1..Len(pi_pages) :
               Cardinality({i \in DOMAIN writer : writer[i] = <<"PI", n>>}) = 1
        /\ \A i, j \in DOMAIN writer :
               (i < j /\ IsPrimaryPage(writer[i]) /\ IsPrimaryPage(writer[j]))
                   => writer[i][2] < writer[j][2]

\* C1 witness: a finished merge of a primary of several pages with an
\* appendix inserted inline and another appended at the end.
C1_Witness ==
    /\ mpc = "done"
    /\ Len(pi_pages) >= 2
    /\ Anchored # {}
    /\ Unanchored # {}
    /\ \E e \in Anchored : e.page < Len(pi_pages) - 1

\* C2 as stated: every anchored appendix stands contiguously and in order,
\* starting immediately after its anchor page P and before page P+1.
C2_StartsImmediatelyAfterAnchor ==
    mpc = "done" =>
        \A e \in Anchored :
            \E first \in DOMAIN writer :
                /\ ContiguousFrom(e.name, first)
                /\ first > 1
                /\ writer[first - 1] = <<"PI", e.page + 1>>
                /\ \A i \in DOMAIN writer :
                       writer[i] = <<"PI", e.page + 2>>
                           => i > first + bijlage[e.name] - 1

\* C2 amended: every anchored appendix stands contiguously and in order
\* between its anchor page P and page P+1, and starts immediately after P
\* when no other supplied appendix has the same anchor page.
C2_BetweenAnchorAndNext ==
    mpc = "done" =>
        \A e \in Anchored :
            \E first \in DOMAIN writer :
                /\ ContiguousFrom(e.name, first)
                /\ \E i \in 1..(first - 1) : writer[i] = <<"PI", e.page + 1>>
                /\ \A i \in 1..(first - 1) :
                       IsPrimaryPage(writer[i]) => writer[i][2] <= e.page + 1
                /\ \A i \in DOMAIN writer :
                       (IsPrimaryPage(writer[i]) /\ writer[i][2] >= e.page + 2)
                           => i > first + bijlage[e.name] - 1
                /\ (\A f \in Anchored : f.page = e.page => f = e)
                       => writer[first - 1] = <<"PI", e.page + 1>>

\* C2 witness: a finished merge with two appendices of two pages inserted
\* after different pages, a primary page following each.
C2_Witness ==
    /\ mpc = "done"
    /\ \E e, f \in Anchored :
           /\ e.page < f.page
           /\ f.page < Len(pi_pages) - 1
           /\ bijlage[e.name] = 2
           /\ bijlage[f.name] = 2

\* What the claim means by a page containing the search text as a
\* case-insensitive substring, stated on the spellings of the words.
Spellings == { {"bijlage", "Bijlage", "BIJLAGE"}, {"zie", "Zie"}, {"en", "En"} }
SameWord(a, b) == a = b \/ \E S \in Spellings : a \in S /\ b \in S
PageMentions(text, needle) ==
    \E i \in 0..(Len(text) - Len(needle)) :
        \A j \in 1..Len(needle) : SameWord(text[i + j], needle[j])
MatchingPages(needle) ==
    {p \in 0..(Len(pi_pages) - 1) : PageMentions(pi_pages[p + 1], needle)}
LastMatchingPage(needle) ==
    IF MatchingPages(needle) = {}
    THEN None
    ELSE CHOOSE p \in MatchingPages(needle) :
             \A q \in MatchingPages(needle) : q <= p

DeclaredPlace(name) == CHOOSE i \in DOMAIN AppendixOrder : AppendixOrder[i] = name

\* C4: the pages of every appendix without an anchor stand after all
\* primary pages and after the pages of every appendix inserted inline, and
\* the appendices without an anchor stand in their declared order.
C4_UnanchoredAtEndInDeclaredOrder ==
    mpc = "done" =>
        \A e \in Unanchored :
            /\ Cardinality(PlacesOf(e.name)) = bijlage[e.name]
            /\ \A i \in PlacesOf(e.name) :
                   /\ \A j \in PlacesOf("PI") : j < i
                   /\ \A f \in Anchored : \A j \in PlacesOf(f.name) : j < i
                   /\ \A f \in Unanchored :
                          DeclaredPlace(f.name) < DeclaredPlace(e.name)
                              => \A j \in PlacesOf(f.name) : j < i

\* C4 witness: a finished merge with two appendices appended at the end and
\* one inserted right after the last primary page.
C4_Witness ==
    /\ mpc = "done"
    /\ Cardinality(Unanchored) = 2
    /\ \E f \in Anchored : f.page = Len(pi_pages) - 1 /\ Len(pi_pages) >= 2

(***************************************************************************)
(* Properties of the batch drivers (checked under Spec).                   *)
(***************************************************************************)
\* The files of object o that carry the " - compleet" suffix.
OutputFiles(o) == {f \in files[o] : f.compleet > 0}

Occurrences(list, o) == Cardinality({i \in DOMAIN list : list[i] = o})

HasInput(o, pattern) == InputFile(pattern) \in files[o]
HasMandatoryInputs(o) ==
    /\ HasInput(o, PI_RAPPORT_PATTERN)
    /\ HasInput(o, BIJLAGE_3_PATTERN)
    /\ HasInput(o, BIJLAGE_9_PATTERN)

\* C5: when the merge of an object fails at any step, combine_pdfs returns
\* False and no file exists at the output path.
C5_NoOutputAfterFailedMerge ==
    \A o \in Objects : why[o] = "merge_failed" => OutputFiles(o) = {}

\* C6: over repeated runs on unchanged inputs the merged PDF of an object
\* is written at most once: once the output exists, a later run neither
\* invokes combine_pdfs nor writes.
C6_AtMostOneWrite ==
    \A o \in Objects :
        /\ writes[o] <= 1
        /\ Cardinality(OutputFiles(o)) <= 1
        /\ why[o] = "exists" => writes[o] = 1

\* C6 witness: in a second run an object whose output was written in the
\* first run has been passed over.
C6_Witness ==
    /\ run = 2
    /\ \E o \in Objects :
           /\ why[o] = "exists"
           /\ writes[o] = 1
           /\ \E f \in OutputFiles(o) : f.state = "complete"

\* C7: no exception raised while an object is handled leaves the loop of a
\* batch driver: the loop goes on to the remaining objects and reaches the
\* summary.
C7_NoErrorLeavesTheLoop ==
    /\ pc # "crashed"
    /\ pc = "summary" => \A o \in Objects : why[o] # "pending"

\* C8: when the combine driver has finished, every object is in exactly one
\* of the lists succeeded, skipped, failed.
C8_OutcomeListsPartition ==
    (driver = "combine" /\ pc = "summary") =>
        \A o \in Objects :
            Occurrences(successful_objects, o) + Occurrences(skipped_objects, o)
                + Occurrences(failed_objects, o) = 1

\* C8 witness: the combine driver has finished with an object that
\* succeeded without Bijlage 6 and an object that failed.
C8_Witness ==
    /\ driver = "combine"
    /\ pc = "summary"
    /\ successful_objects # <<>>
    /\ failed_objects # <<>>
    /\ missing_bijlage_6_objects # <<>>

\* C9: the combine driver lists an object as skipped only when the PI
\* report or a mandatory appendix is missing; an object whose merge was
\* aborted by a failure is listed as failed.
C9_SkippedOnlyOnMissingPrecondition ==
    driver = "combine" =>
        /\ \A i \in DOMAIN skipped_objects :
               why[skipped_objects[i]] \in {"no_pi_report", "critical_missing"}
        /\ \A o \in Objects :
               why[o] = "merge_failed" => Occurrences(failed_objects, o) = 1

\* C10: without the PI report, Bijlage 3 or Bijlage 9 the merge is never
\* invoked and no output is written; without Bijlage 6 alone the object is
\* not skipped and the merge is invoked with Bijlage 3 and Bijlage 9.
C10_MandatoryAppendices ==
    driver = "combine" =>
        \A o \in Objects :
            /\ ~HasMandatoryInputs(o) =>
                   /\ why[o] \notin {"merged", "merge_failed", "exists"}
                   /\ writes[o] = 0
                   /\ OutputFiles(o) = {}
                   /\ Occurrences(successful_objects, o) = 0
            /\ (HasMandatoryInputs(o) /\ ~HasInput(o, BIJLAGE_6_PATTERN)) =>
                   /\ why[o] \notin {"no_pi_report", "critical_missing"}
                   /\ why[o] \in {"merged", "merge_failed"}
                          => merged_with[o] = <<"Bijlage 3", "Bijlage 9">>

\* C10 witness: an object without Bijlage 9 was skipped and an object
\* without Bijlage 6 alone was merged.
C10_Witness ==
    /\ driver = "combine"
    /\ \E o \in Objects :
           /\ HasInput(o, PI_RAPPORT_PATTERN)
           /\ HasInput(o, BIJLAGE_3_PATTERN)
           /\ ~HasInput(o, BIJLAGE_9_PATTERN)
           /\ why[o] = "critical_missing"
    /\ \E o \in Objects :
           /\ HasMandatoryInputs(o)
           /\ ~HasInput(o, BIJLAGE_6_PATTERN)
           /\ why[o] = "merged"
           /\ merged_with[o] = <<"Bijlage 3", "Bijlage 9">>

(***************************************************************************)
(* Strings of generate_aandachtspunten_beheerder.py.  A string is a        *)
(* sequence of characters; the operators below are the str and os.path     *)
(* methods the module calls, computed as Python computes them.             *)
(***************************************************************************)
MaxChars == 4
MaxImgs == 3

\* str.strip() without argument removes white space at both ends.
Whitespace == {" ", "\n"}

RECURSIVE lstrip(_)
lstrip(s) ==
    IF s # <<>> /\ Head(s) \in Whitespace THEN lstrip(Tail(s)) ELSE s

RECURSIVE rstrip(_)
rstrip(s) ==
    IF s # <<>> /\ s[Len(s)] \in Whitespace
    THEN rstrip(SubSeq(s, 1, Len(s) - 1))
    ELSE s

strip(s) == rstrip(lstrip(s))

\* c in s
In(c, s) == \E i \in 1..Len(s) : s[i] = c

\* str.find: the index of the first occurrence of c, 0 when there is none
RECURSIVE find(_, _)
find(s, c) ==
    IF s = <<>> THEN 0
    ELSE IF Head(s) = c THEN 1
    ELSE LET r == find(Tail(s), c) IN IF r = 0 THEN 0 ELSE r + 1

\* str.rfind over a set of characters: the last index, 0 when there is none
rfind(s, chars) ==
    LET hits == {i \in 1..Len(s) : s[i] \in chars}
    IN  IF hits = {} THEN 0 ELSE CHOOSE i \in hits : \A j \in hits : j <= i

partition_last(s, sep) ==
    LET k == rfind(s, {sep})
    IN  IF k = 0 THEN <<s, <<>>, <<>>>>
        ELSE <<SubSeq(s, 1, k - 1), <<sep>>, SubSeq(s, k + 1, Len(s))>>

\* str.partition(sep): the text before the first sep, sep, the text after it
partition(s, sep) ==
    LET k == find(s, sep)
    IN  IF k = 0 THEN <<s, <<>>, <<>>>>
        ELSE <<SubSeq(s, 1, k - 1), <<sep>>, SubSeq(s, k + 1, Len(s))>>

\* str.split(sep)
RECURSIVE split(_, _)
split(s, sep) ==
    LET k == find(s, sep)
    IN  IF k = 0 THEN <<s>>
        ELSE <<SubSeq(s, 1, k - 1)>> \o split(SubSeq(s, k + 1, Len(s)), sep)

LowerChar(c) ==
    CASE c = "D" -> "d" [] c = "S" -> "s" [] c = "C" -> "c" [] c = "N" -> "n"
      [] c = "I" -> "i" [] c = "M" -> "m" [] c = "G" -> "g" [] c = "J" -> "j"
      [] c = "P" -> "p" [] c = "E" -> "e"
      [] OTHER -> c

\* str.lower()
str_lower(s) == [i \in 1..Len(s) |-> LowerChar(s[i])]

\* str.replace(old, ""), old a single character
replace(s, old) == SelectSeq(s, LAMBDA c : c # old)

Separators == {"/", "\\"}

\* os.path.splitext: the extension starts at the last dot of the file name,
\* leading dots of the file name do not start an extension
splitext(p) ==
    LET sepIndex == rfind(p, Separators)
        dotIndex == rfind(p, {"."})
    IN  IF /\ dotIndex > sepIndex
           /\ \E k \in (sepIndex + 1)..(dotIndex - 1) : p[k] # "."
        THEN <<SubSeq(p, 1, dotIndex - 1), SubSeq(p, dotIndex, Len(p))>>
        ELSE <<p, <<>>>>

\* os.path.basename
basename(p) == SubSeq(p, rfind(p, Separators) + 1, Len(p))

\* Variant of endswith that finds the suffix anywhere in the string.
endswith_anywhere(s, suffix) ==
    \E k \in 0..(Len(s) - Len(suffix)) :
        SubSeq(s, k + 1, k + Len(suffix)) = suffix

\* str.endswith
endswith(s, suffix) ==
    /\ Len(suffix) <= Len(s)
    /\ SubSeq(s, Len(s) - Len(suffix) + 1, Len(s)) = suffix

\* os.path.getsize of a listed picture
getsize(img) == img.size

\* os.path.commonpath over the path components; raises ValueError on an
\* empty list
commonpath(paths) ==
    IF paths = <<>> THEN [kind |-> "ValueError", raised_by |-> "commonpath"]
    ELSE LET parts == [i \in 1..Len(paths) |-> split(paths[i], "/")]
             Shared(k) == \A i \in 1..Len(paths) :
                              /\ k <= Len(parts[i])
                              /\ SubSeq(parts[i], 1, k) = SubSeq(parts[1], 1, k)
             n == CHOOSE k \in 0..Len(parts[1]) :
                      /\ Shared(k)
                      /\ \A j \in 0..Len(parts[1]) : Shared(j) => j <= k
         IN  [kind |-> "ok", path |-> SubSeq(parts[1], 1, n)]

(***************************************************************************)
(* Row parsing and photo lookup of generate_aandachtspunten_beheerder.py.  *)
(***************************************************************************)
ValueError(what) == [kind |-> "ValueError", raised_by |-> what]

finding_without_check(content) ==
    [kind |-> "ok",
     aandachtspunt |-> strip(partition(content, ":")[1]),
     bevinding_ora |-> strip(partition(content, ":")[3])]

\* process_aandachtspunten_beheerder, lines 337-352: the attention point
\* and the observation of a finding field
finding(content) ==
    IF ~In(":", content) THEN ValueError("finding")
    ELSE LET before == strip(partition(content, ":")[1])
             aandachtspunt ==
                 IF Len(before) > 2
                 THEN SubSeq(before, Len(before) - 1, Len(before))
                 ELSE before
             bevinding_ora == strip(partition(content, ":")[3])
         IN  [kind |-> "ok",
              aandachtspunt |-> aandachtspunt,
              bevinding_ora |-> bevinding_ora]

nan == <<"n", "a", "n">>

StripEach(items) == [i \in 1..Len(items) |-> strip(items[i])]

list_of_fotonummers_comma_only(raw) ==
    IF In(",", raw) THEN StripEach(split(raw, ","))
    ELSE IF strip(raw) = nan THEN <<>>
    ELSE <<strip(raw)>>

list_of_fotonummers(raw) ==
    IF In(",", raw) THEN StripEach(split(raw, ","))
    ELSE IF In(";", raw) THEN StripEach(split(raw, ";"))
    ELSE IF strip(raw) = nan THEN <<>>
    ELSE <<strip(raw)>>

\* line 226: the list the extension is looked up in, as written
AllowedExtensions == {<<".", "p", "n", "g">>, <<".", "j", "p", "g">>, <<"j", "p", "e", "g">>}

\* min(matching_images, key=os.path.getsize): the first of the smallest
smallest_image_first_listed(matching_images) == matching_images[1]

smallest_image(matching_images) ==
    matching_images[CHOOSE i \in 1..Len(matching_images) :
        /\ \A j \in 1..Len(matching_images) :
               getsize(matching_images[i]) <= getsize(matching_images[j])
        /\ \A j \in 1..(i - 1) :
               getsize(matching_images[j]) > getsize(matching_images[i])]

find_foto_path(token, candidates) ==
    LET normalized == replace(str_lower(token), " ")
        nummer == splitext(normalized)[1]
        ext == splitext(normalized)[2]
        Matches(img) ==
            endswith(str_lower(splitext(basename(img.path))[1]), nummer)
        matching_images == SelectSeq(candidates, Matches)
        common_path ==
            commonpath([i \in 1..Len(candidates) |-> candidates[i].path])
    IN  IF ext # <<>> /\ ext \notin AllowedExtensions
        THEN ValueError("extension")
        ELSE IF matching_images = <<>>
        THEN IF common_path.kind = "ok"
             THEN [kind |-> "FileNotFoundError",
                   fotonummer |-> nummer,
                   common_path |-> common_path.path]
             ELSE common_path
        ELSE IF Len(matching_images) > 1
        THEN [kind |-> "path", path |-> smallest_image(matching_images).path]
        ELSE [kind |-> "path", path |-> matching_images[1].path]

(***************************************************************************)
(* SpecFields: each of the three functions applied to bounded inputs.      *)
(***************************************************************************)
Strings(alphabet, n) == UNION {[1..k -> alphabet] : k \in 0..n}

IMG_9251_full == <<"o", "/", "I", "M", "G", "_", "9", "2", "5", "1", "_", "f", "u", "l", "l", ".", "j", "p", "g">>
IMG_9251_small == <<"o", "/", "I", "M", "G", "_", "9", "2", "5", "1", "_", "s", "m", "a", "l", "l", ".", "j", "p", "g">>

\* the finding fields tried: every short string over four characters and
\* two fields of the shape the ORA sheets hold
FindingFields ==
    Strings({"a", "2", ":", " "}, MaxChars)
        \cup {<<"a", "2", ":", " ", "C", "o", "r", "r", "o", "s", "i", "o", "n", " ", "o", "b", "s", "e", "r", "v", "e", "d", " ", "o", "n", " ", "b", "e", "a", "m">>,
              <<"S", "e", "e", " ", "r", "e", "m", "a", "r", "k", " ", "f", "3", ":", " ", "C", "r", "a", "c", "k", ":", " ", "w", "i", "d", "e">>}

\* the photo cells tried
PhotoCells ==
    Strings({"n", "a", "1", ",", ";", " "}, MaxChars)
        \cup {<<"D", "S", "C", "N", "0", "0", "1", ",", " ", "D", "S", "C", "N", "0", "0", "2">>,
              <<"D", "S", "C", "N", "0", "0", "1", ";", " ", "D", "S", "C", "N", "0", "0", "2">>,
              <<"9", "2", "5", "1">>,
              <<" ", "n", "a", "n", " ">>}

\* the photo tokens tried
PhotoTokens ==
    {<<"9", "2", "5", "1">>, <<"D", "S", "C", "N", " ", "9", "2", "5", "1">>, <<"9", "2", "5", "1", ".", "j", "p", "g">>,
     <<"9", "2", "5", "1", ".", "J", "P", "G">>, <<"9", "2", "5", "1", ".", "p", "n", "g">>,
     <<"9", "2", "5", "1", ".", "j", "p", "e", "g">>, <<"9", "2", "5", "1", ".", "g", "i", "f">>,
     <<"9", "9", "9", "9">>, <<"9", "2", "5", "1", "_", "s", "m", "a", "l", "l">>, <<"9", "2", "5", "2", ".", "j", "p", "g">>}

\* the pictures a directory walk can list: path and size in KB
Pictures ==
    {[path |-> IMG_9251_full, size |-> 2000],
     [path |-> IMG_9251_small, size |-> 200],
     [path |-> <<"o", "/", "f", "/", "D", "S", "C", "N", "9", "2", "5", "1", ".", "J", "P", "G">>, size |-> 2000],
     [path |-> <<"o", "/", "v", "/", "D", "S", "C", "N", "9", "2", "5", "1", ".", "j", "p", "g">>, size |-> 200],
     [path |-> <<"o", "/", "v", "/", "d", "s", "c", "n", "9", "2", "5", "1", ".", "p", "n", "g">>, size |-> 200],
     [path |-> <<"o", "/", "v", "/", "D", "S", "C", "N", "9", "2", "5", "2", ".", "j", "p", "g">>, size |-> 300]}

\* os.walk lists every file once
PictureLists ==
    {l \in UNION {[1..k -> Pictures] : k \in 0..MaxImgs} :
        \A i, j \in 1..Len(l) : i # j => l[i] # l[j]}

InitFields ==
    /\ MergeIdle
    /\ BatchIdle
    /\ WordIdle
    /\ ExcelIdle
    /\ returned = Pending
    /\ \/ /\ fn = "finding"
          /\ cell_content \in FindingFields
          /\ fotonummers = <<>>
          /\ fotonummer = <<>>
          /\ imgs = <<>>
       \/ /\ fn = "list_of_fotonummers"
          /\ cell_content = <<>>
          /\ fotonummers \in PhotoCells
          /\ fotonummer = <<>>
          /\ imgs = <<>>
       \/ /\ fn = "find_foto_path"
          /\ cell_content = <<>>
          /\ fotonummers = <<>>
          /\ fotonummer \in PhotoTokens
          /\ imgs \in PictureLists

CallFinding ==
    /\ fn = "finding"
    /\ returned.kind = "pending"
    /\ returned' = finding(cell_content)
    /\ UNCHANGED <<fn, cell_content, fotonummers, fotonummer, imgs>>
    /\ UNCHANGED <<merge_vars, batch_vars, word_vars, excel_vars>>

CallListOfFotonummers ==
    /\ fn = "list_of_fotonummers"
    /\ returned.kind = "pending"
    /\ returned' = [kind |-> "list", list |-> list_of_fotonummers(fotonummers)]
    /\ UNCHANGED <<fn, cell_content, fotonummers, fotonummer, imgs>>
    /\ UNCHANGED <<merge_vars, batch_vars, word_vars, excel_vars>>

CallFindFotoPath ==
    /\ fn = "find_foto_path"
    /\ returned.kind = "pending"
    /\ returned' = find_foto_path(fotonummer, imgs)
    /\ UNCHANGED <<fn, cell_content, fotonummers, fotonummer, imgs>>
    /\ UNCHANGED <<merge_vars, batch_vars, word_vars, excel_vars>>

NextFields ==
    \/ CallFinding
    \/ CallListOfFotonummers
    \/ CallFindFotoPath

SpecFields == InitFields /\ [][NextFields]_vars

(***************************************************************************)
(* Claims checked under SpecFields.                                        *)
(***************************************************************************)
Called(f) == fn = f /\ returned.kind # "pending"

\* the text without the white space at its two ends
Trimmed(u) ==
    LET ink == {i \in 1..Len(u) : u[i] \notin Whitespace}
        first == CHOOSE i \in ink : \A j \in ink : i <= j
        last == CHOOSE i \in ink : \A j \in ink : j <= i
    IN  IF ink = {} THEN <<>> ELSE SubSeq(u, first, last)

FirstColon(u) == CHOOSE k \in 1..Len(u) :
                     u[k] = ":" /\ \A j \in 1..(k - 1) : u[j] # ":"

TrailingTwo(t) == IF Len(t) > 2 THEN <<t[Len(t) - 1], t[Len(t)]>> ELSE t

\* C12: for every finding field that contains a colon, the label is the
\* trimmed text before the first colon, reduced to its trailing 2 characters
\* when it is longer than 2 characters, and the description is the trimmed
\* text after the first colon; "a2: Corrosion observed on beam" gives
\* ("a2", "Corrosion observed on beam") and an introductory sentence ending
\* in "f3" gives the label "f3".
C12_LabelAndDescription ==
    (Called("finding") /\ \E k \in 1..Len(cell_content) : cell_content[k] = ":")
        => LET k == FirstColon(cell_content)
               before == SubSeq(cell_content, 1, k - 1)
               after == SubSeq(cell_content, k + 1, Len(cell_content))
           IN  /\ returned.kind = "ok"
               /\ returned.aandachtspunt = TrailingTwo(Trimmed(before))
               /\ returned.bevinding_ora = Trimmed(after)
               /\ cell_content = <<"a", "2", ":", " ", "C", "o", "r", "r", "o", "s", "i", "o", "n", " ", "o", "b", "s", "e", "r", "v", "e", "d", " ", "o", "n", " ", "b", "e", "a", "m">>
                      => /\ returned.aandachtspunt = <<"a", "2">>
                         /\ returned.bevinding_ora = <<"C", "o", "r", "r", "o", "s", "i", "o", "n", " ", "o", "b", "s", "e", "r", "v", "e", "d", " ", "o", "n", " ", "b", "e", "a", "m">>
               /\ cell_content = <<"S", "e", "e", " ", "r", "e", "m", "a", "r", "k", " ", "f", "3", ":", " ", "C", "r", "a", "c", "k", ":", " ", "w", "i", "d", "e">>
                      => returned.aandachtspunt = <<"f", "3">>

C12_Witness ==
    /\ Called("finding")
    /\ returned.kind = "ok"
    /\ \E k \in 1..Len(cell_content) :
           /\ cell_content[k] = ":"
           /\ \E j \in (k + 1)..Len(cell_content) : cell_content[j] = ":"
    /\ Len(Trimmed(SubSeq(cell_content, 1, FirstColon(cell_content) - 1))) > 2
    /\ Len(returned.aandachtspunt) = 2

\* the texts between the separators, in order
Positions(u, sep) == {i \in 1..Len(u) : u[i] = sep}

Nth(P, n) == CHOOSE i \in P : Cardinality({j \in P : j < i}) = n - 1

Pieces(u, sep) ==
    LET P == Positions(u, sep)
        count == Cardinality(P)
        from(n) == IF n = 1 THEN 1 ELSE Nth(P, n - 1) + 1
        to(n) == IF n = count + 1 THEN Len(u) ELSE Nth(P, n) - 1
    IN  [n \in 1..(count + 1) |-> SubSeq(u, from(n), to(n))]

TrimmedPieces(u, sep) ==
    [n \in 1..Len(Pieces(u, sep)) |-> Trimmed(Pieces(u, sep)[n])]

IsTrimmed(t) ==
    t = <<>> \/ (t[1] \notin Whitespace /\ t[Len(t)] \notin Whitespace)

\* C13: list_of_fotonummers splits the raw value on commas if it contains
\* a comma, otherwise on semicolons if it contains a semicolon, otherwise
\* returns the whole trimmed string as a single token; every returned token
\* is trimmed; and the value "nan" (after trim) yields the empty list.
C13_SplitsOnCommaElseSemicolon ==
    Called("list_of_fotonummers")
        => /\ returned.list =
                  IF Positions(fotonummers, ",") # {}
                  THEN TrimmedPieces(fotonummers, ",")
                  ELSE IF Positions(fotonummers, ";") # {}
                  THEN TrimmedPieces(fotonummers, ";")
                  ELSE IF Trimmed(fotonummers) = <<"n", "a", "n">>
                  THEN <<>>
                  ELSE <<Trimmed(fotonummers)>>
           /\ \A i \in 1..Len(returned.list) : IsTrimmed(returned.list[i])
           /\ fotonummers = <<"D", "S", "C", "N", "0", "0", "1", ",", " ", "D", "S", "C", "N", "0", "0", "2">>
                  => returned.list = <<<<"D", "S", "C", "N", "0", "0", "1">>, <<"D", "S", "C", "N", "0", "0", "2">>>>
           /\ fotonummers = <<"D", "S", "C", "N", "0", "0", "1", ";", " ", "D", "S", "C", "N", "0", "0", "2">>
                  => returned.list = <<<<"D", "S", "C", "N", "0", "0", "1">>, <<"D", "S", "C", "N", "0", "0", "2">>>>

C13_Witness ==
    /\ Called("list_of_fotonummers")
    /\ Positions(fotonummers, ",") = {}
    /\ Positions(fotonummers, ";") # {}
    /\ Len(returned.list) = 2
    /\ returned.list[2] # <<>>
    /\ returned.list[2] # Pieces(fotonummers, ";")[2]

\* the token as the lookup reads it: lower case, spaces removed
Normalized(token) ==
    LET kept == {i \in 1..Len(token) : token[i] # " "}
    IN  [n \in 1..Cardinality(kept) |-> LowerChar(token[Nth(kept, n)])]

\* the extension a token carries, without its dot: <<>> when it has none
ExtensionOf(token) ==
    LET t == Normalized(token)
        dots == {i \in 2..Len(t) : t[i] = "."}
        dot == CHOOSE i \in dots : \A j \in dots : j <= i
    IN  IF dots = {} THEN <<>> ELSE SubSeq(t, dot + 1, Len(t))

\* the token without the extension it carries
NameOf(token) ==
    LET t == Normalized(token)
    IN  IF ExtensionOf(token) = <<>> /\ (t = <<>> \/ t[Len(t)] # ".") THEN t
        ELSE SubSeq(t, 1, Len(t) - Len(ExtensionOf(token)) - 1)

PictureExtensions == {<<"p", "n", "g">>, <<"j", "p", "g">>, <<"j", "p", "e", "g">>}

CarriesExtension(token) == Normalized(token) # NameOf(token)

\* C14: find_foto_path accepts a token carrying any of the extensions png,
\* jpg or jpeg (case-insensitively) and proceeds to matching on the name
\* without extension; a token carrying any other extension fails with a
\* format error before any matching is attempted.
C14_PictureExtensionsAccepted ==
    (Called("find_foto_path") /\ CarriesExtension(fotonummer))
        => IF ExtensionOf(fotonummer) \in PictureExtensions
           THEN returned # ValueError("extension")
           ELSE returned = ValueError("extension")

\* the base name of a picture, lower case, without its extension
PictureName(img) ==
    LET p == img.path
        slashes == {i \in 1..Len(p) : p[i] \in Separators}
        start == IF slashes = {} THEN 1
                 ELSE 1 + CHOOSE i \in slashes : \A j \in slashes : j <= i
        dots == {i \in (start + 1)..Len(p) : p[i] = "."}
        stop == IF dots = {} THEN Len(p)
                ELSE (CHOOSE i \in dots : \A j \in dots : j <= i) - 1
    IN  [n \in 1..(stop - start + 1) |-> LowerChar(p[start + n - 1])]

\* the positions of the candidates whose name ends with the token's name
Matching(token, candidates) ==
    {i \in 1..Len(candidates) :
        \E k \in 0..Len(PictureName(candidates[i])) :
            SubSeq(PictureName(candidates[i]), k + 1,
                   Len(PictureName(candidates[i]))) = NameOf(token)}

\* the lookup went on to the matching: the extension check did not raise
MatchingAttempted == returned # ValueError("extension")

C16_ReturnsCompressedVariant ==
    (/\ Called("find_foto_path")
     /\ fotonummer = <<"9", "2", "5", "1">>
     /\ Len(imgs) = 2
     /\ {imgs[1], imgs[2]} = {[path |-> IMG_9251_full, size |-> 2000],
                              [path |-> IMG_9251_small, size |-> 200]})
        => returned = [kind |-> "path", path |-> IMG_9251_small]

\* C17: whenever no candidate file matches the token, for every candidate
\* list including the empty list, find_foto_path fails with a not-found
\* error that identifies the token and the searched root; it never returns
\* a path and never fails with a different error kind.
C17_NotFoundWhenNothingMatches ==
    (/\ Called("find_foto_path")
     /\ MatchingAttempted
     /\ Matching(fotonummer, imgs) = {})
        => /\ returned.kind = "FileNotFoundError"
           /\ returned.fotonummer = NameOf(fotonummer)
           /\ \A i \in 1..Len(imgs) :
                  LET parts == Pieces(imgs[i].path, "/")
                  IN  /\ Len(returned.common_path) <= Len(parts)
                      /\ returned.common_path =
                             SubSeq(parts, 1, Len(returned.common_path))

(***************************************************************************)
(* The Word table builder: process_aandachtspunten_beheerder and the try   *)
(* block of main in generate_aandachtspunten_beheerder.py, for one object. *)
(***************************************************************************)
MaxRows == 3

\* A document is its body, a sequence of paragraphs and tables in document
\* order, and the cells of every table element by the element's id.
Paragraph == [tag |-> "p", id |-> 0]

Table(k) == [tag |-> "tbl", id |-> k]

EmptyCells ==
    [label |-> <<>>, element |-> <<>>, bouwdeel |-> <<>>, bevinding |-> <<>>,
     categorie |-> <<>>, foto1 |-> <<>>, foto2 |-> <<>>]

\* FORMAT_Bijlage9_AandachtspuntBeheerder.docx: two tables, with or
\* without text after the last one
TemplateBodies ==
    {<<Paragraph, Table(1), Paragraph, Table(2)>>,
     <<Paragraph, Table(1), Paragraph, Table(2), Paragraph>>}

Template(body) == [body |-> body, cells |-> <<EmptyCells, EmptyCells>>]

\* FORMAT_Bijlage9_GeenAandachtspuntBeheerder.docx
TemplateGeen == [body |-> <<Paragraph>>, cells |-> <<>>]

IsTable(element) == element.tag = "tbl"

\* word_document.tables
tables(document) == SelectSeq(document.body, IsTable)

\* Variant of the copy that adds no paragraph in front of the new table.
copy_last_table_without_paragraph(document) ==
    LET template == tables(document)[Len(tables(document))]
        new_tbl == Table(Len(document.cells) + 1)
    IN  [body |-> Append(document.body, new_tbl),
         cells |-> Append(document.cells, document.cells[template.id])]

\* lines 276-280: a deep copy of the last table, put after a new paragraph
\* at the end of the body
copy_last_table(document) ==
    LET template == tables(document)[Len(tables(document))]
        new_tbl == Table(Len(document.cells) + 1)
    IN  [body |-> document.body \o <<Paragraph, new_tbl>>,
         cells |-> Append(document.cells, document.cells[template.id])]

\* lines 298-303
remove_last_table(document) ==
    LET at == {k \in 1..Len(document.body) : IsTable(document.body[k])}
        last == CHOOSE k \in at : \A j \in at : j <= k
    IN  IF at = {} THEN document
        ELSE [document EXCEPT
                 !.body = SubSeq(@, 1, last - 1) \o SubSeq(@, last + 1, Len(@))]

copies_one_more(n) == n - 1

\* line 329: range(len(ora_filtered) - 2)
copies(n) == n - 2

RECURSIVE duplicate(_, _)
duplicate(document, times) ==
    IF times <= 0 THEN document
    ELSE duplicate(copy_last_table(document), times - 1)

\* lines 325-331
resize_tables(document, n) ==
    IF n = 1 THEN remove_last_table(document)
    ELSE duplicate(document, copies(n))

NoPath == [kind |-> "none"]

Aandachtspunt == <<"A", "a", "n", "d", "a", "c", "h", "t", "s", "p", "u", "n", "t", " ">>

\* Variant of the row that looks up a third photo as well.
row_values_third_photo(row, candidates) ==
    LET f == finding(row.bevinding)
        fotos == list_of_fotonummers(row.foto)
        Lookup(k) == IF Len(fotos) >= k /\ fotos[k] # <<>>
                     THEN find_foto_path(fotos[k], candidates)
                     ELSE NoPath
        Picture(p) == IF p.kind = "path" THEN <<p.path>> ELSE <<>>
    IN  IF f.kind # "ok" THEN f
        ELSE IF Lookup(1).kind \notin {"path", "none"} THEN Lookup(1)
        ELSE IF Lookup(2).kind \notin {"path", "none"} THEN Lookup(2)
        ELSE IF Lookup(3).kind \notin {"path", "none"} THEN Lookup(3)
        ELSE [kind |-> "ok",
              label |-> Aandachtspunt \o f.aandachtspunt,
              element |-> partition(row.element, ",")[1],
              bouwdeel |-> row.bouwdeel,
              bevinding |-> f.bevinding_ora,
              categorie |-> row.categorie,
              foto1 |-> Picture(Lookup(1)),
              foto2 |-> Picture(Lookup(2))]

\* lines 337-377: what one row puts into its table, or the exception raised
row_values(row, candidates) ==
    LET f == finding(row.bevinding)
        fotos == list_of_fotonummers(row.foto)
        foto1 == IF fotos # <<>> THEN fotos[1] ELSE <<>>
        foto2 == IF Len(fotos) > 1 THEN fotos[2] ELSE <<>>
        path_foto1 == IF foto1 # <<>> THEN find_foto_path(foto1, candidates)
                      ELSE NoPath
        path_foto2 == IF foto2 # <<>> THEN find_foto_path(foto2, candidates)
                      ELSE NoPath
        Picture(p) == IF p.kind = "path" THEN <<p.path>> ELSE <<>>
    IN  IF f.kind # "ok" THEN f
        ELSE IF path_foto1.kind \notin {"path", "none"} THEN path_foto1
        ELSE IF path_foto2.kind \notin {"path", "none"} THEN path_foto2
        ELSE [kind |-> "ok",
              label |-> Aandachtspunt \o f.aandachtspunt,
              element |-> partition(row.element, ",")[1],
              bouwdeel |-> row.bouwdeel,
              bevinding |-> f.bevinding_ora,
              categorie |-> row.categorie,
              foto1 |-> Picture(path_foto1),
              foto2 |-> Picture(path_foto2)]

\* lines 366-391 on one table element: the texts are set, the pictures are
\* added to what the cell holds
write_cells(document, id, v) ==
    [document EXCEPT !.cells[id] =
        [label |-> v.label,
         element |-> v.element,
         bouwdeel |-> v.bouwdeel,
         bevinding |-> v.bevinding,
         categorie |-> v.categorie,
         foto1 |-> @.foto1 \o v.foto1,
         foto2 |-> @.foto2 \o v.foto2]]

populate_table_first(document, i, v) ==
    write_cells(document, tables(document)[1].id, v)

\* word_document.tables[i], i counted from 0
populate_table(document, i, v) ==
    write_cells(document, tables(document)[i + 1].id, v)

\* the rows of the ORA sheets tried
OraRows ==
    {[bevinding |-> <<"a", "1", ":", " ", "r", "u", "s", "t">>,
      element |-> <<"L", "i", "g", "g", "e", "r", ",", " ", "s", "t", "a", "a", "l">>,
      bouwdeel |-> <<"D", "e", "k">>,
      categorie |-> <<"x", "1">>,
      foto |-> <<"9", "2", "5", "1">>],
     [bevinding |-> <<"Z", "i", "e", " ", "b", "2", ":", " ", "g", "a", "t">>,
      element |-> <<"K", "o", "l", "o", "m">>,
      bouwdeel |-> <<"P", "i", "j", "l", "e", "r">>,
      categorie |-> <<"x", "2">>,
      foto |-> <<"n", "a", "n">>],
     [bevinding |-> <<"c", "3", " ", "s", "c", "h", "e", "u", "r">>,
      element |-> <<"W", "a", "n", "d">>,
      bouwdeel |-> <<"K", "e", "l", "d", "e", "r">>,
      categorie |-> <<"x", "3">>,
      foto |-> <<"9", "2", "5", "1">>],
     [bevinding |-> <<"d", "4", ":", " ", "k", "r", "a", "s">>,
      element |-> <<"V", "l", "o", "e", "r">>,
      bouwdeel |-> <<"D", "e", "k">>,
      categorie |-> <<"x", "4">>,
      foto |-> <<"9", "2", "5", "1", ".", "g", "i", "f">>],
     [bevinding |-> <<"e", "5", ":", " ", "d", "e", "u", "k">>,
      element |-> <<"P", "a", "a", "l">>,
      bouwdeel |-> <<"P", "i", "j", "l", "e", "r">>,
      categorie |-> <<"x", "5">>,
      foto |-> <<"9", "9", "9", "9">>],
     [bevinding |-> <<"f", "6", ":", " ", "r", "o", "e", "s", "t">>,
      element |-> <<"R", "a", "i", "l", ",", " ", "l", "i", "n", "k", "s">>,
      bouwdeel |-> <<"D", "e", "k">>,
      categorie |-> <<"x", "6">>,
      foto |-> <<"9", "2", "5", "1", ",", " ", "9", "2", "5", "2", ",", " ", "9", "9", "9", "9", ".", "g", "i", "f">>],
     [bevinding |-> <<"g", "7", ":", " ", "l", "e", "k">>,
      element |-> <<"G", "o", "o", "t">>,
      bouwdeel |-> <<"D", "a", "k">>,
      categorie |-> <<"x", "7">>,
      foto |-> <<"9", "2", "5", "1", ";", " ", "9", "2", "5", "2">>]}

\* the picture lists tried for the object
ObjectPictures ==
    {<<>>,
     <<[path |-> <<"o", "/", "f", "/", "D", "S", "C", "N", "9", "2", "5", "1", ".", "J", "P", "G">>, size |-> 2000],
       [path |-> <<"o", "/", "v", "/", "D", "S", "C", "N", "9", "2", "5", "1", ".", "j", "p", "g">>, size |-> 200],
       [path |-> <<"o", "/", "v", "/", "D", "S", "C", "N", "9", "2", "5", "2", ".", "j", "p", "g">>, size |-> 300]>>}

InitWord ==
    /\ MergeIdle
    /\ BatchIdle
    /\ FieldsIdle
    /\ ExcelIdle
    /\ wpc = "start"
    /\ ora_filtered \in UNION {[1..k -> OraRows] : k \in 0..MaxRows}
    /\ path_imgs \in ObjectPictures
    /\ word_document = NoDocument
    /\ row_i = 0
    /\ word_error = Pending
    /\ docx_written = FALSE
    /\ pdf_written = FALSE
    /\ failed_object = FALSE

\* lines 484-486
WordExcept(e) ==
    /\ wpc' = "failed"
    /\ word_error' = e
    /\ failed_object' = TRUE

\* lines 469-474, create_word_document: the template is loaded, or the
\* footer configuration raises (line 130)
WordCreate ==
    /\ wpc = "start"
    /\ \/ /\ Len(ora_filtered) = 0
          /\ word_document' = TemplateGeen
          /\ wpc' = "save"
          /\ UNCHANGED <<word_error, failed_object>>
       \/ /\ Len(ora_filtered) # 0
          /\ \E body \in TemplateBodies : word_document' = Template(body)
          /\ wpc' = "resize"
          /\ UNCHANGED <<word_error, failed_object>>
       \/ /\ WordExcept([kind |-> "Exception", raised_by |-> "footer"])
          /\ UNCHANGED word_document
    /\ UNCHANGED <<ora_filtered, path_imgs, row_i, docx_written, pdf_written>>
    /\ UNCHANGED <<merge_vars, batch_vars, fields_vars, excel_vars>>

\* lines 323-331
WordResize ==
    /\ wpc = "resize"
    /\ word_document' = resize_tables(word_document, Len(ora_filtered))
    /\ wpc' = "rows"
    /\ UNCHANGED <<ora_filtered, path_imgs, row_i, word_error, docx_written,
                   pdf_written, failed_object>>
    /\ UNCHANGED <<merge_vars, batch_vars, fields_vars, excel_vars>>

\* lines 334-392: one pass of the loop over the rows
WordPopulateRow ==
    /\ wpc = "rows"
    /\ row_i < Len(ora_filtered)
    /\ LET v == row_values(ora_filtered[row_i + 1], path_imgs)
       IN  IF v.kind = "ok"
           THEN /\ word_document' = populate_table(word_document, row_i, v)
                /\ row_i' = row_i + 1
                /\ UNCHANGED <<wpc, word_error, failed_object>>
           ELSE /\ WordExcept(v)
                /\ UNCHANGED <<word_document, row_i>>
    /\ UNCHANGED <<ora_filtered, path_imgs, docx_written, pdf_written>>
    /\ UNCHANGED <<merge_vars, batch_vars, fields_vars, excel_vars>>

\* lines 393-394
WordProcessReturns ==
    /\ wpc = "rows"
    /\ row_i = Len(ora_filtered)
    /\ wpc' = "save"
    /\ UNCHANGED <<ora_filtered, path_imgs, word_document, row_i, word_error,
                   docx_written, pdf_written, failed_object>>
    /\ UNCHANGED <<merge_vars, batch_vars, fields_vars, excel_vars>>

\* line 479, save_aandachtspunten_beheerder: saved, or document.save raises
WordSave ==
    /\ wpc = "save"
    /\ \/ /\ docx_written' = TRUE
          /\ wpc' = "convert"
          /\ UNCHANGED <<word_error, failed_object>>
       \/ /\ WordExcept([kind |-> "Exception", raised_by |-> "save_document"])
          /\ UNCHANGED docx_written
    /\ UNCHANGED <<ora_filtered, path_imgs, word_document, row_i, pdf_written>>
    /\ UNCHANGED <<merge_vars, batch_vars, fields_vars, excel_vars>>

\* line 482, convert_docx_to_pdf: converted, or the conversion raises
WordConvert ==
    /\ wpc = "convert"
    /\ \/ /\ pdf_written' = TRUE
          /\ wpc' = "done"
          /\ UNCHANGED <<word_error, failed_object>>
       \/ /\ WordExcept([kind |-> "Exception",
                         raised_by |-> "convert_docx_to_pdf"])
          /\ UNCHANGED pdf_written
    /\ UNCHANGED <<ora_filtered, path_imgs, word_document, row_i, docx_written>>
    /\ UNCHANGED <<merge_vars, batch_vars, fields_vars, excel_vars>>

NextWord ==
    \/ WordCreate
    \/ WordResize
    \/ WordPopulateRow
    \/ WordProcessReturns
    \/ WordSave
    \/ WordConvert

SpecWord == InitWord /\ [][NextWord]_vars

(***************************************************************************)
(* Claims checked under SpecWord.                                          *)
(***************************************************************************)
\* the positions of the tables in the body of the document
TablePositions == {k \in 1..Len(word_document.body) :
                      word_document.body[k].tag = "tbl"}

\* the id of the i-th table of the document, i counted from 1
SlotId(i) == word_document.body[Nth(TablePositions, i)].id

Slot(i) == word_document.cells[SlotId(i)]

\* the table-resizing step of process_aandachtspunten_beheerder has run
Resized ==
    /\ Len(ora_filtered) >= 1
    /\ wpc \notin {"start", "resize"}
    /\ word_document # NoDocument

\* C11: starting from a template with exactly 2 table slots, for every row
\* count n >= 1 the table-resizing step leaves the document with exactly n
\* table slots, each a table element of its own (n = 1: the last slot
\* removed; n > 1: the last slot cloned n - 2 times).
C11_ExactlyNTableSlots ==
    Resized
        => /\ Cardinality(TablePositions) = Len(ora_filtered)
           /\ \A i, j \in 1..Cardinality(TablePositions) :
                  i # j => SlotId(i) # SlotId(j)
           /\ Len(ora_filtered) = 1 => SlotId(1) = 1
           /\ Len(ora_filtered) > 1
                  => /\ SlotId(1) = 1
                     /\ SlotId(2) = 2
                     /\ Len(word_document.cells) = Len(ora_filtered)

C11_Witness ==
    /\ Resized
    /\ wpc = "rows"
    /\ row_i = 0
    /\ Len(ora_filtered) >= 3
    /\ Cardinality(TablePositions) >= 3

\* the photo tokens of a photo cell
TokensOf(raw) ==
    IF Positions(raw, ",") # {} THEN TrimmedPieces(raw, ",")
    ELSE IF Positions(raw, ";") # {} THEN TrimmedPieces(raw, ";")
    ELSE IF Trimmed(raw) = nan THEN <<>>
    ELSE <<Trimmed(raw)>>

LacksColon(row) == Positions(row.bevinding, ":") = {}

DisallowedExtension(token) ==
    CarriesExtension(token) /\ ExtensionOf(token) \notin PictureExtensions

MatchesNoFile(token) == Matching(token, path_imgs) = {}

Aborted ==
    /\ ~docx_written
    /\ ~pdf_written
    /\ wpc \notin {"save", "convert", "done"}
    /\ wpc = "failed" => failed_object

\* C18 as stated: if any row has a finding field without a colon, a photo
\* token with a disallowed extension, or a photo token that matches no file,
\* population of the document aborts with an error, the object is recorded
\* as failed, and neither the Word document nor its PDF is written.
C18_AnyBadTokenAborts ==
    (\E r \in 1..Len(ora_filtered) :
        \/ LacksColon(ora_filtered[r])
        \/ \E t \in 1..Len(TokensOf(ora_filtered[r].foto)) :
               \/ DisallowedExtension(TokensOf(ora_filtered[r].foto)[t])
               \/ MatchesNoFile(TokensOf(ora_filtered[r].foto)[t]))
        => Aborted

\* C18 amended: if any row has a finding field without a colon, or has
\* among its first two photo tokens a non-empty token with a disallowed
\* extension or one that matches no file, population of the document
\* aborts with an error, the object is recorded as failed, and neither the
\* Word document nor its PDF is written.
C18_BadRowAborts ==
    (\E r \in 1..Len(ora_filtered) :
        \/ LacksColon(ora_filtered[r])
        \/ \E t \in 1..Len(TokensOf(ora_filtered[r].foto)) :
               /\ t <= 2
               /\ TokensOf(ora_filtered[r].foto)[t] # <<>>
               /\ \/ DisallowedExtension(TokensOf(ora_filtered[r].foto)[t])
                  \/ MatchesNoFile(TokensOf(ora_filtered[r].foto)[t]))
        => Aborted

C18_Witness ==
    /\ wpc = "failed"
    /\ failed_object
    /\ row_i >= 1
    /\ word_error.kind = "ValueError"
    /\ word_error.raised_by = "finding"
    /\ Slot(1).label # <<>>
    /\ ~docx_written

\* the picture cell holds what the k-th token of the row resolves to
HoldsPicture(cell, tokens, k) ==
    IF k <= Len(tokens) /\ tokens[k] # <<>>
    THEN /\ Len(cell) = 1
         /\ \E i \in Matching(tokens[k], path_imgs) :
                /\ path_imgs[i].path = cell[1]
                /\ \A j \in Matching(tokens[k], path_imgs) :
                       path_imgs[i].size <= path_imgs[j].size
    ELSE cell = <<>>

\* the table holds the values of the row
HoldsRow(c, row) ==
    LET k == FirstColon(row.bevinding)
        before == SubSeq(row.bevinding, 1, k - 1)
        after == SubSeq(row.bevinding, k + 1, Len(row.bevinding))
    IN  /\ ~LacksColon(row)
        /\ c.label = Aandachtspunt \o TrailingTwo(Trimmed(before))
        /\ c.element = Pieces(row.element, ",")[1]
        /\ c.bouwdeel = row.bouwdeel
        /\ c.bevinding = Trimmed(after)
        /\ c.categorie = row.categorie
        /\ HoldsPicture(c.foto1, TokensOf(row.foto), 1)
        /\ HoldsPicture(c.foto2, TokensOf(row.foto), 2)

ProcessSucceeded ==
    /\ Resized
    /\ row_i = Len(ora_filtered)
    /\ wpc # "rows"

\* C19: after a successful process_aandachtspunten_beheerder on n >= 1
\* rows, table slot i holds the values of the i-th row in the filtered
\* rows' original order for every i in 0..n-1, and no slot holds values
\* from a different row.
C19_SlotHoldsItsRow ==
    ProcessSucceeded
        => \A i \in 1..Len(ora_filtered) :
               /\ HoldsRow(Slot(i), ora_filtered[i])
               /\ \A j \in 1..Len(ora_filtered) :
                      ora_filtered[j] # ora_filtered[i]
                          => ~HoldsRow(Slot(i), ora_filtered[j])

C19_Witness ==
    /\ ProcessSucceeded
    /\ wpc = "done"
    /\ Len(ora_filtered) >= 3
    /\ \A i, j \in 1..Len(ora_filtered) :
           i # j => ora_filtered[i] # ora_filtered[j]
    /\ \E i \in 1..Len(ora_filtered) : Slot(i).foto2 # <<>>

(***************************************************************************)
(* The Excel automation bridge: utilsxls.export_to_pdf and                 *)
(* export_excel_to_pdf.run_macro_on_workbook, called once per object by    *)
(* generate_bijlage_3 and generate_pi_rapportage.  Every call on the COM   *)
(* interface either succeeds or raises.                                    *)
(***************************************************************************)
MaxConversions == 2

Operations == {"export_to_pdf", "run_macro_on_workbook"}

\* the arguments and the surroundings of one conversion
ConversionInputs ==
    \/ /\ operation' = "export_to_pdf"
       /\ sheet_name' \in BOOLEAN
       /\ path_exists' = FALSE
       /\ personal_open' = FALSE
    \/ /\ operation' = "run_macro_on_workbook"
       /\ sheet_name' = FALSE
       /\ path_exists' \in BOOLEAN
       /\ personal_open' \in BOOLEAN

InitExcel ==
    /\ MergeIdle
    /\ BatchIdle
    /\ FieldsIdle
    /\ WordIdle
    /\ xpc = "call"
    /\ operation \in Operations
    /\ sheet_name \in BOOLEAN
    /\ path_exists \in BOOLEAN
    /\ personal_open \in BOOLEAN
    /\ operation = "export_to_pdf" => ~path_exists /\ ~personal_open
    /\ operation = "run_macro_on_workbook" => ~sheet_name
    /\ excel = "none"
    /\ excel_app = FALSE
    /\ workbook = FALSE
    /\ conversions = 1
    /\ left_running = 0

Export(at) == operation = "export_to_pdf" /\ xpc = at

Macro(at) == operation = "run_macro_on_workbook" /\ xpc = at

\* the position changes and the rest of the bridge stays as it is
Goto(to, unchanged) ==
    /\ xpc' = to
    /\ UNCHANGED unchanged
    /\ UNCHANGED <<operation, sheet_name, path_exists, personal_open,
                   conversions, left_running>>
    /\ UNCHANGED <<merge_vars, batch_vars, fields_vars, word_vars>>

\* utilsxls.py lines 231-235; a failure is re-raised at lines 250-251
ExportDispatch ==
    /\ Export("call")
    /\ \/ excel' = "running" /\ Goto("open", <<excel_app, workbook>>)
       \/ Goto("raised", <<excel, excel_app, workbook>>)

\* utilsxls.py line 236
ExportOpen ==
    /\ Export("open")
    /\ \/ workbook' = TRUE /\ Goto("export", <<excel, excel_app>>)
       \/ Goto("raised", <<excel, excel_app, workbook>>)

\* utilsxls.py lines 237-247
ExportAsFixedFormat ==
    /\ Export("export")
    /\ \/ Goto("close", <<excel, excel_app, workbook>>)
       \/ Goto("raised", <<excel, excel_app, workbook>>)

\* utilsxls.py line 248
ExportClose ==
    /\ Export("close")
    /\ \/ workbook' = FALSE /\ Goto("quit", <<excel, excel_app>>)
       \/ Goto("raised", <<excel, excel_app, workbook>>)

\* utilsxls.py line 249
ExportQuit ==
    /\ Export("quit")
    /\ \/ excel' = "quit" /\ Goto("returned", <<excel_app, workbook>>)
       \/ Goto("raised", <<excel, excel_app, workbook>>)

\* export_excel_to_pdf.py line 157; every exception of the try block is
\* logged at lines 168-169 and the finally clause runs
MacroCoInitialize ==
    /\ Macro("call")
    /\ \/ Goto("exists", <<excel, excel_app, workbook>>)
       \/ Goto("finally", <<excel, excel_app, workbook>>)

\* open_excel, lines 62-64
OpenExcelExists ==
    /\ Macro("exists")
    /\ IF path_exists
       THEN Goto("dispatch", <<excel, excel_app, workbook>>)
       ELSE Goto("finally", <<excel, excel_app, workbook>>)

\* open_excel, lines 68-70
OpenExcelDispatch ==
    /\ Macro("dispatch")
    /\ \/ excel' = "running" /\ Goto("open", <<excel_app, workbook>>)
       \/ Goto("finally", <<excel, excel_app, workbook>>)

\* open_excel, line 74; the exception is re-raised at line 84
OpenExcelOpen ==
    /\ Macro("open")
    /\ \/ workbook' = TRUE /\ Goto("personal", <<excel, excel_app>>)
       \/ Goto("finally", <<excel, excel_app, workbook>>)

\* open_excel, lines 75-81, and the assignment of line 158
OpenExcelPersonal ==
    /\ Macro("personal")
    /\ \/ excel_app' = TRUE /\ Goto("macro", <<excel, workbook>>)
       \/ /\ ~personal_open
          /\ Goto("finally", <<excel, excel_app, workbook>>)

\* execute_macro, lines 105-114, called at lines 165-167
ExecuteMacro ==
    /\ Macro("macro")
    /\ Goto("finally", <<excel, excel_app, workbook>>)

\* lines 170-176 with close_excel, lines 130-137: the workbooks are closed
\* and Excel quits, or one of the calls raises and is only logged
MacroFinally ==
    /\ Macro("finally")
    /\ IF excel_app /\ workbook
       THEN \/ /\ workbook' = FALSE
               /\ excel' = "quit"
               /\ Goto("returned", <<excel_app>>)
            \/ Goto("returned", <<excel, excel_app, workbook>>)
            \/ /\ workbook' = FALSE
               /\ Goto("returned", <<excel, excel_app>>)
       ELSE Goto("returned", <<excel, excel_app, workbook>>)

\* the loop of the calling script goes on to its next object:
\* generate_bijlage_3.py lines 71-95
NextConversion ==
    /\ xpc \in {"returned", "raised"}
    /\ conversions < MaxConversions
    /\ conversions' = conversions + 1
    /\ left_running' = left_running + (IF excel = "running" THEN 1 ELSE 0)
    /\ xpc' = "call"
    /\ ConversionInputs
    /\ operation' = operation
    /\ excel' = "none"
    /\ excel_app' = FALSE
    /\ workbook' = FALSE
    /\ UNCHANGED <<merge_vars, batch_vars, fields_vars, word_vars>>

NextExcel ==
    \/ ExportDispatch
    \/ ExportOpen
    \/ ExportAsFixedFormat
    \/ ExportClose
    \/ ExportQuit
    \/ MacroCoInitialize
    \/ OpenExcelExists
    \/ OpenExcelDispatch
    \/ OpenExcelOpen
    \/ OpenExcelPersonal
    \/ ExecuteMacro
    \/ MacroFinally
    \/ NextConversion

SpecExcel == InitExcel /\ [][NextExcel]_vars

(***************************************************************************)
(* Claims checked under SpecExcel.                                         *)
(***************************************************************************)
\* C20: in every conversion through the office automation bridge, once the
\* Excel application instance has been created it is closed (Quit) before
\* the operation returns or raises, on every path including a failure to
\* open the workbook, to run the macro or to export; no conversion leaves
\* an Excel application running behind it.
C20_ExcelQuitBeforeReturn ==
    /\ xpc \in {"returned", "raised"} => excel \in {"none", "quit"}
    /\ left_running = 0

(***************************************************************************)
(* Further properties of the PDF insertion engine (checked under           *)
(* SpecMerge): the order of the merge plan and the positions it uses.      *)
(***************************************************************************)
\* The entries of the merge plan that are still to be merged.
PlanEntries == {insertions_with_pages[i] : i \in DOMAIN insertions_with_pages}

\* The entries of the merge plan that have been merged already.
MergedEntries == Anchored \ PlanEntries

\* The place of primary page n (1-based) in the writer.
PlaceOfPrimary(n) == CHOOSE i \in DOMAIN writer : writer[i] = <<"PI", n>>

\* C21: the inline insertions are processed in descending order of anchor
\* page, so whenever an appendix is about to be merged the writer still
\* holds the untouched primary pages up to and including its anchor page:
\* its position, anchor page + 1, is the boundary right after that page and
\* no earlier insertion has shifted it.
C21_PositionNotShifted ==
    mpc = "merge" =>
        /\ \A i, j \in DOMAIN insertions_with_pages :
               i < j => insertions_with_pages[i].page >= insertions_with_pages[j].page
        /\ \A e \in PlanEntries :
               /\ e.page + 1 <= Len(writer)
               /\ \A k \in 1..(e.page + 1) : writer[k] = <<"PI", k>>

\* C21 witness: an appendix has been merged after a later page, and an
\* appendix anchored at an earlier page is about to be merged.
C21_Witness ==
    /\ mpc = "merge"
    /\ insertions_with_pages # <<>>
    /\ Len(writer) > Len(pi_pages)
    /\ \E f \in MergedEntries : f.page > Head(insertions_with_pages).page

\* C22: supplied appendices that resolve to the same anchor page stand in
\* the merge plan in the declared order of the appendices (Bijlage 3, then
\* Bijlage 6, then Bijlage 9).
C22_TiesInDeclaredOrder ==
    mpc = "merge" =>
        \A i, j \in DOMAIN insertions_with_pages :
            (/\ i < j
             /\ insertions_with_pages[i].page = insertions_with_pages[j].page)
                => DeclaredPlace(insertions_with_pages[i].name)
                       < DeclaredPlace(insertions_with_pages[j].name)

\* C22 witness: a merge plan of three entries, two of them with the same
\* anchor page and the third with a later one.
C22_Witness ==
    /\ mpc = "merge"
    /\ Len(insertions_with_pages) = 3
    /\ insertions_with_pages[1].page > insertions_with_pages[2].page
    /\ insertions_with_pages[2].page = insertions_with_pages[3].page

\* C28: of two supplied appendices with the same anchor page P the one
\* declared later stands first in the merged document and the one declared
\* earlier follows it, the pages of each together and in order, and both
\* after original page P and before original page P+1.
C28_SameAnchorReverseOfDeclaration ==
    mpc = "done" =>
        \A e, f \in Anchored :
            (e.page = f.page /\ DeclaredPlace(e.name) < DeclaredPlace(f.name)) =>
                /\ \E first \in DOMAIN writer : ContiguousFrom(e.name, first)
                /\ \E first \in DOMAIN writer : ContiguousFrom(f.name, first)
                /\ \A i \in PlacesOf(f.name) : \A j \in PlacesOf(e.name) : i < j
                /\ \A i \in PlacesOf(e.name) \cup PlacesOf(f.name) :
                       /\ PlaceOfPrimary(e.page + 1) < i
                       /\ e.page + 2 <= Len(pi_pages)
                              => i < PlaceOfPrimary(e.page + 2)

\* C28 witness: a finished merge with two appendices of two pages each
\* anchored at the same page, a primary page following them.
C28_Witness ==
    /\ mpc = "done"
    /\ \E e, f \in Anchored :
           /\ e # f
           /\ e.page = f.page
           /\ e.page + 2 <= Len(pi_pages)
           /\ bijlage[e.name] = 2
           /\ bijlage[f.name] = 2

\* C29: every position build_merged_pdf merges at lies in 1..N, N the page
\* count of the primary, and is not past the end of the writer when it is
\* used; no appendix page comes to stand before the first primary page.
C29_PositionsWithinPrimary ==
    /\ mpc = "merge" =>
           \A e \in PlanEntries :
               /\ InsertPosition(e.page) \in 1..Len(pi_pages)
               /\ InsertPosition(e.page) <= Len(writer)
    /\ (writer # <<>> /\ pi_pages # <<>>) => writer[1] = <<"PI", 1>>

\* C29 witness: a merge plan that uses both the first and the last
\* position, 1 and N, the appendix at N merged already.
C29_Witness ==
    /\ mpc = "merge"
    /\ Len(pi_pages) >= 2
    /\ \E f \in MergedEntries : InsertPosition(f.page) = Len(pi_pages)
    /\ \E e \in PlanEntries : InsertPosition(e.page) = 1

\* C26: when reading the primary raises during the search for an
\* appendix's anchor, find_insertion_points still returns an entry for
\* every supplied appendix, the entry of that appendix has no page, and the
\* appendix is never merged inline: its pages are appended at the end.
C26_ReadErrorMeansEndAppend ==
    /\ mpc = "build" =>
           Len(insertion_points) = Len(SuppliedAppendices(bijlage))
    /\ \A a \in AppendixNames :
           (read_error[a] /\ HasPath(bijlage, a)) =>
               /\ \E e \in Unanchored : e.name = a
               /\ \A e \in PlanEntries : e.name # a
               /\ mpc = "done" =>
                      /\ Cardinality(PlacesOf(a)) = bijlage[a]
                      /\ \A i \in PlacesOf(a) :
                             /\ \A j \in PlacesOf("PI") : j < i
                             /\ \A f \in Anchored :
                                    \A j \in PlacesOf(f.name) : j < i

\* C26 witness: a finished merge in which reading raised for an appendix
\* the primary mentions, while another appendix was found and merged inline.
C26_Witness ==
    /\ mpc = "done"
    /\ Anchored # {}
    /\ \E a \in AppendixNames :
           /\ read_error[a]
           /\ HasPath(bijlage, a)
           /\ MatchingPages(SearchPattern(a)) # {}
           /\ PlacesOf(a) # {}

(***************************************************************************)
(* Further claims checked under SpecWord: where a copied table stands and  *)
(* which photo tokens of a row are looked up.                              *)
(***************************************************************************)
\* the place of table k in the body of the document
PlaceOfTable(k) ==
    CHOOSE p \in TablePositions : word_document.body[p].id = k

\* the tables made by copy_last_table: the template holds tables 1 and 2,
\* and table k > 2 is the copy of table k - 1, the last table when it was
\* made
Clones == {word_document.body[p].id : p \in TablePositions} \ {1, 2}

\* C23 as stated: each clone made by copy_last_table is the element that
\* follows the table it was copied from in the element sequence of the
\* document.
C23_CloneNextAfterOriginal ==
    \A k \in Clones : PlaceOfTable(k) = PlaceOfTable(k - 1) + 1

\* C23 amended: each clone made by copy_last_table stands at the end of
\* the element sequence of the document, right after a new empty
\* paragraph: it follows the table it was copied from with at least that
\* paragraph between them, and nothing but later clones and their
\* paragraphs follows it.
C23_CloneAppendedAfterParagraph ==
    \A k \in Clones :
        /\ word_document.body[PlaceOfTable(k) - 1] = Paragraph
        /\ PlaceOfTable(k) >= PlaceOfTable(k - 1) + 2
        /\ \A p \in (PlaceOfTable(k - 1) + 1)..(PlaceOfTable(k) - 1) :
               word_document.body[p] = Paragraph
        /\ IF k + 1 \in Clones
           THEN PlaceOfTable(k + 1) = PlaceOfTable(k) + 2
           ELSE PlaceOfTable(k) = Len(word_document.body)

\* C23 witness: a document of three rows built from the template with text
\* after its last table, the copy standing behind that text and the new
\* paragraph.
C23_Witness ==
    /\ wpc = "rows"
    /\ Len(ora_filtered) = 3
    /\ Clones = {3}
    /\ PlaceOfTable(3) = PlaceOfTable(2) + 3

\* C24: of a row whose photo field holds more than two tokens only the
\* first two are looked up and embedded; a token at the third place or
\* later is never looked up, so when such a row raises, the error comes
\* from the finding field or from one of the first two tokens.
C24_OnlyFirstTwoTokensResolved ==
    \A r \in 1..Len(ora_filtered) :
        LET tokens == TokensOf(ora_filtered[r].foto)
        IN  Len(tokens) > 2 =>
                /\ r <= row_i =>
                       /\ HoldsPicture(Slot(r).foto1, tokens, 1)
                       /\ HoldsPicture(Slot(r).foto2, tokens, 2)
                /\ (/\ wpc = "failed"
                    /\ word_error.kind # "Exception"
                    /\ r = row_i + 1) =>
                       \/ LacksColon(ora_filtered[r])
                       \/ \E t \in 1..2 :
                              /\ tokens[t] # <<>>
                              /\ word_error = find_foto_path(tokens[t], path_imgs)

\* C24 witness: a finished document with a row of three photo tokens, the
\* third with a disallowed extension and matching no file, the first two
\* embedded.
C24_Witness ==
    /\ wpc = "done"
    /\ \E r \in 1..Len(ora_filtered) :
           LET tokens == TokensOf(ora_filtered[r].foto)
           IN  /\ Len(tokens) = 3
               /\ DisallowedExtension(tokens[3])
               /\ MatchesNoFile(tokens[3])
               /\ Slot(r).foto1 # <<>>
               /\ Slot(r).foto2 # <<>>

C27_SucceededMeansCompleteOutput ==
    driver = "combine" =>
        \A i \in DOMAIN successful_objects :
            /\ OutputFiles(successful_objects[i]) # {}
            /\ \A f \in OutputFiles(successful_objects[i]) : f.state = "complete"

\* C30: a merged output file is never selected as the primary PI report by
\* a later run on the same directory: the name of every output carries the
\* suffix " - compleet" once, and no merged document is merged again.
C30_OutputNeverPrimary ==
    driver = "combine" =>
        \A o \in Objects :
            /\ pi_report_path(o).compleet = 0
            /\ \A f \in files[o] : f.compleet <= 1
            /\ \A f \in OutputFiles(o) : f.kind = PI_RAPPORT_PATTERN

\* C30 witness: a second run has gone over an object whose directory holds
\* the output of the first run, more recent than the PI report, and has
\* still taken the PI report as the primary.
C30_Witness ==
    /\ driver = "combine"
    /\ run = 2
    /\ pc = "summary"
    /\ \E o \in Objects :
           /\ [kind |-> PI_RAPPORT_PATTERN, compleet |-> 1, state |-> "complete"]
                  \in files[o]
           /\ pi_report_path(o) = InputFile(PI_RAPPORT_PATTERN)
           /\ why[o] = "exists"

=============================================================================
